---- MODULE Spec2Model ----
(***************************************************************************)
(* A model of server.py: the shape overlay (RectangleDrawer, CircleDrawer), *)
(* the single-frame path (FrameProcessor, websocket_endpoint), the          *)
(* per-session control/transform path (VideoTransformTrack, on_message,     *)
(* on_track) and the session registry lifecycle (offer,                     *)
(* on_connectionstatechange, lifespan).                                     *)
(*                                                                         *)
(* Colours inside a pixel buffer are <<b, g, r>> tuples (format "bgr24").   *)
(* A size factor is a fraction <<num, den>>; Python's int() of the float    *)
(* product equals the exact truncated quotient for every size factor and    *)
(* dimension used below.                                                    *)
(***************************************************************************)
EXTENDS Integers, Sequences, FiniteSets, TLC

\* ------------------------------------------------------------------------
\* Bounds of the model
\* ------------------------------------------------------------------------

\* Largest width and height of the small buffers that are enumerated.
MaxDim == 4

\* Most texts one message-socket connection receives.
MaxMsgs == 3

\* Most sessions (offers) in one run of the process.
MaxSessions == 2

\* Most sessions in the specification that follows the teardown of a
\* session through every interleaving of its notifications with shutdown.
MaxTeardown == 1

\* Most repeated failure notifications in one run of the process.
MaxNotify == 1

\* Most control messages delivered, over all sessions.
MaxCtl == 2

\* Most frames pulled, over all transform tracks.
MaxFrames == 1

\* Most transform tracks created, over all sessions.
MaxTracks == 2

\* ------------------------------------------------------------------------
\* Shape overlay (pure functions)
\* ------------------------------------------------------------------------

Black == <<0, 0, 0>>

Min2(a, b) == IF a <= b THEN a ELSE b

Max2(a, b) == IF a >= b THEN a ELSE b

\* Python int(num/den): truncation toward zero.
PyInt(num, den) == IF num >= 0 THEN num \div den ELSE -((-num) \div den)

\* Pixel coordinates <<x, y>> of a width x height buffer.
Pixels(w, h) == (0 .. (w - 1)) \X (0 .. (h - 1))

\* AppConfig defaults: shape_type "rectangle", size_factor 0.3.
DefaultSizeFactor == <<3, 10>>

\* The size factors the overlay is exercised with, all in (0, 1].
SizeFactors == {<<1, 100>>, <<1, 10>>, DefaultSizeFactor, <<1, 2>>, <<1, 1>>}

\* Size factors outside (0, 1] that a caller can hand to AppConfig: zero and 1.5.
OutOfRangeFactors == {<<0, 1>>, <<3, 2>>}

\* AppConfig.__init__: stores both arguments as given; nothing is checked and
\* nothing raises.
AppConfig(shape_type, size_factor) ==
    [raised |-> FALSE, shape_type |-> shape_type, size_factor |-> size_factor]

\* A black buffer (np.ndarray of shape height x width x 3).
BlankImage(w, h) == [width |-> w, height |-> h, px |-> [p \in Pixels(w, h) |-> Black]]

\* The points cv2.rectangle(img, pt1, pt2, color, -1) asks to fill: OpenCV's
\* filled rectangle has pt1 and pt2 as opposite corners, both inclusive.
RectFill(pt1, pt2) ==
    (Min2(pt1[1], pt2[1]) .. Max2(pt1[1], pt2[1])) \X (Min2(pt1[2], pt2[2]) .. Max2(pt1[2], pt2[2]))

\* The points cv2.circle(img, center, radius, color, -1) asks to fill: the disc
\* of the given radius around center; radius 0 is the centre point itself.
CircleFill(center, radius) ==
    {p \in ((center[1] - radius) .. (center[1] + radius)) \X ((center[2] - radius) .. (center[2] + radius)) :
        (p[1] - center[1]) * (p[1] - center[1]) + (p[2] - center[2]) * (p[2] - center[2]) <= radius * radius}

\* A colour channel as stored in an 8-bit buffer (saturate_cast<uchar>).
Sat8(v) == IF v < 0 THEN 0 ELSE IF v > 255 THEN 255 ELSE v

Stored(color) == <<Sat8(color[1]), Sat8(color[2]), Sat8(color[3])>>

\* OpenCV drawing clips to the buffer: only points of the buffer are written.
Paint(img, region, color) ==
    [img EXCEPT !.px = [p \in DOMAIN img.px |-> IF p \in region THEN Stored(color) ELSE img.px[p]]]

RectExtent(dim, sf) == PyInt(dim * sf[1], sf[2])

RectOrigin(dim, sf) == (dim - RectExtent(dim, sf)) \div 2

\* RectangleDrawer.draw: the region handed to cv2.rectangle.
RectangleRegion(w, h, sf) ==
    RectFill(<<RectOrigin(w, sf), RectOrigin(h, sf)>>,
             <<RectOrigin(w, sf) + RectExtent(w, sf), RectOrigin(h, sf) + RectExtent(h, sf)>>)

RectangleDraw(img, color, sf) == Paint(img, RectangleRegion(img.width, img.height, sf), color)

CircleRadius(w, h, sf) == PyInt(Min2(w, h) * sf[1], sf[2] * 2)

\* CircleDrawer.draw: the region handed to cv2.circle.
CircleRegion(w, h, sf) == CircleFill(<<w \div 2, h \div 2>>, CircleRadius(w, h, sf))

CircleDraw(img, color, sf) == Paint(img, CircleRegion(img.width, img.height, sf), color)

ShapeTypes == {"rectangle", "circle"}

\* ShapeDrawerFactory.create_drawer followed by drawer.draw.
Draw(shape, img, color, sf) ==
    IF shape = "rectangle" THEN RectangleDraw(img, color, sf) ELSE CircleDraw(img, color, sf)

\* The pixels of img whose value differs from that in old.
Changed(old, img) == {p \in DOMAIN img.px : img.px[p] # old.px[p]}

\* ------------------------------------------------------------------------
\* JSON values and the frame codec (external services, at their interface)
\* ------------------------------------------------------------------------

\* Parsed JSON values. A JSON string that carries image data is kept as the
\* sequence of its comma-separated segments.
JNull == [t |-> "null"]

JNum(n) == [t |-> "num", n |-> n]

JStr(s) == [t |-> "str", s |-> s]

JData(segs) == [t |-> "data", segs |-> segs]

JObj(f) == [t |-> "obj", f |-> f]

\* Python's v[k] succeeds.
HasKey(v, k) == v.t = "obj" /\ k \in DOMAIN v.f

NoImage == [width |-> 0, height |-> 0, px |-> <<>>]

\* A check of the decoder's result that never fires.
IsNoneNever(img) == FALSE

\* img is None
IsNone(img) == img.width = 0

\* One comma-free segment of a data string: the data-URI header, the base64
\* of an encoded image, the base64 of bytes that are no image, the empty
\* string, or text that is not base64 at all (incorrect padding).
Segment(enc, img) == [enc |-> enc, img |-> img]

HeaderSeg == Segment("header", NoImage)

\* base64.b64decode raises binascii.Error on incorrectly padded input.
B64DecodeRaises(seg) == seg.enc = "badpad"

\* cv2.imdecode(np.frombuffer(base64.b64decode(seg))): the buffer, or
\* NoImage (Python None) when the bytes are not an image.
ImDecode(seg) == IF seg.enc = "image" THEN seg.img ELSE NoImage

\* base64.b64encode(cv2.imencode(".jpg", img)).
ImEncodeB64(img) == Segment("image", img)

\* AppConfig(shape_type="circle"): the process-wide configuration.
AppShape == "circle"

AppSizeFactor == DefaultSizeFactor

\* ------------------------------------------------------------------------
\* FrameProcessor.process_frame
\* ------------------------------------------------------------------------

Raise(exc) == [ok |-> FALSE, exc |-> exc, value |-> JNull, drew |-> 0, encoded |-> 0]

Return(value) == [ok |-> TRUE, exc |-> "", value |-> value, drew |-> 1, encoded |-> 1]

\* data.split(",")[1] if "," in data else data
Base64Part(data) == IF Len(data.segs) > 1 THEN data.segs[2] ELSE data.segs[1]

\* (avg_color["b"], avg_color["g"], avg_color["r"])
BgrOf(c) == <<c.f["b"].n, c.f["g"].n, c.f["r"].n>>

IsColorObject(c) ==
    /\ c.t = "obj"
    /\ \A k \in {"r", "g", "b"} : k \in DOMAIN c.f /\ c.f[k].t = "num"

\* A reply whose avgColor is rebuilt from the (b, g, r) tuple, the channels
\* taken in tuple order.
ReplyFromTuple(encoded_image, avg_color) ==
    JObj("data" :> JData(<<HeaderSeg, encoded_image>>)
         @@ "avgColor" :> JObj("r" :> avg_color.f["b"] @@ "g" :> avg_color.f["g"] @@ "b" :> avg_color.f["r"]))

\* The dictionary process_frame returns: the data URL of the encoded image
\* and avg_color, the object of the request itself.
Reply(encoded_image, avg_color) ==
    JObj("data" :> JData(<<HeaderSeg, encoded_image>>) @@ "avgColor" :> avg_color)

ProcessFrame(frame_data) ==
    IF frame_data.t # "obj" THEN Raise("TypeError")
    ELSE IF ~HasKey(frame_data, "data") THEN Raise("KeyError: 'data'")
    ELSE IF frame_data.f["data"].t # "data" THEN Raise("TypeError")
    ELSE IF ~HasKey(frame_data, "avgColor") THEN Raise("KeyError: 'avgColor'")
    ELSE IF B64DecodeRaises(Base64Part(frame_data.f["data"])) THEN Raise("binascii.Error")
    ELSE IF IsNone(ImDecode(Base64Part(frame_data.f["data"])))
         THEN Raise("ValueError: Failed to decode image")
    ELSE IF ~IsColorObject(frame_data.f["avgColor"]) THEN Raise("KeyError")
    ELSE Return(Reply(ImEncodeB64(Draw(AppShape,
                                       ImDecode(Base64Part(frame_data.f["data"])),
                                       BgrOf(frame_data.f["avgColor"]),
                                       AppSizeFactor)),
                      frame_data.f["avgColor"]))

\* ------------------------------------------------------------------------
\* State
\* ------------------------------------------------------------------------

VARIABLES
    dShape,     \* draw: the shape of the drawer under test
    dFactor,    \* draw: the size factor passed to draw
    dColor,     \* draw: the colour passed to draw
    dBefore,    \* draw: the buffer before the call
    dImg,       \* draw: the buffer (mutated in place by draw)
    dDone,      \* draw: whether draw has returned
    wsPc,       \* socket: where websocket_endpoint stands
    wsPeerOpen, \* socket: whether the peer is still connected
    wsIn,       \* socket: the texts received, each with the work done for it
    wsSends,    \* socket: the send_text calls made, in order
    wsPending,  \* socket: the message the endpoint is about to send
    pcs,        \* registry: the module-level set of peer connections
    pcState,    \* session: pc.connectionState ("absent" before the pc exists)
    closer,     \* session: the caller whose pc.close() tears the transport down
    offerPc,    \* session: where the offer() coroutine of the session stands
    hPending,   \* session: on_connectionstatechange tasks created, not yet run
    hWaiting,   \* session: such tasks suspended in a pc.close() another caller runs
    hDone,      \* session: such tasks that went through close and discard (0, 1, 2 = more)
    hFault,     \* session: whether such a task ended with an unhandled exception
    released,   \* session: how often the transport resources were released
    removals,   \* session: how often the session was taken out of the registry
    notified,   \* number of repeated failure notifications so far
    lsPc,       \* lifespan: where the teardown after yield stands
    lsTasks,    \* lifespan: per session, the state of its gathered close() task
    vtt,        \* session: video_transform_track, an index into tracks (0: None)
    tracks,     \* session: the VideoTransformTrack objects created, in order
    ctlCount,   \* number of control messages delivered so far
    frameCount, \* number of frames pulled so far
    lastCtl     \* the control message delivered last: its session, its class, and
                \* whether the bound track of that session has pulled a frame since

drawVars == <<dShape, dFactor, dColor, dBefore, dImg, dDone>>

sockVars == <<wsPc, wsPeerOpen, wsIn, wsSends, wsPending>>

lifeVars == <<pcs, pcState, closer, offerPc, hPending, hWaiting, hDone, hFault,
              released, removals, notified, lsPc, lsTasks>>

ctlVars == <<vtt, tracks, ctlCount, frameCount, lastCtl>>

vars == <<drawVars, sockVars, lifeVars, ctlVars>>

\* ------------------------------------------------------------------------
\* Specification of the overlay: every input, then one draw
\* ------------------------------------------------------------------------

\* Buffer dimensions: every small one, and the 100 of the end-to-end example.
Dims == (1 .. MaxDim) \cup {100}

DrawColors == {<<30, 20, 10>>, <<255, 255, 255>>}

DrawInit ==
    /\ dShape \in ShapeTypes
    /\ dFactor \in SizeFactors
    /\ dColor \in DrawColors
    /\ \E w \in Dims, h \in Dims : dBefore = BlankImage(w, h)
    /\ dImg = dBefore
    /\ dDone = FALSE

\* A configuration built by AppConfig from any shape type and any size
\* factor a caller passes, and the buffer and colour of the draw that uses it.
ConfigInit ==
    /\ \E st \in ShapeTypes, sf \in SizeFactors \cup OutOfRangeFactors :
          /\ ~AppConfig(st, sf).raised
          /\ dShape = AppConfig(st, sf).shape_type
          /\ dFactor = AppConfig(st, sf).size_factor
    /\ dColor \in DrawColors
    /\ \E w \in Dims, h \in Dims : dBefore = BlankImage(w, h)
    /\ dImg = dBefore
    /\ dDone = FALSE

DrawIdle ==
    /\ dShape = "rectangle"
    /\ dFactor = DefaultSizeFactor
    /\ dColor = Black
    /\ dBefore = BlankImage(1, 1)
    /\ dImg = dBefore
    /\ dDone = FALSE

DrawRectangle ==
    /\ ~dDone
    /\ dShape = "rectangle"
    /\ dImg' = RectangleDraw(dImg, dColor, dFactor)
    /\ dDone' = TRUE
    /\ UNCHANGED <<dShape, dFactor, dColor, dBefore, sockVars, lifeVars, ctlVars>>

DrawCircle ==
    /\ ~dDone
    /\ dShape = "circle"
    /\ dImg' = CircleDraw(dImg, dColor, dFactor)
    /\ dDone' = TRUE
    /\ UNCHANGED <<dShape, dFactor, dColor, dBefore, sockVars, lifeVars, ctlVars>>

\* ------------------------------------------------------------------------
\* Session registry and connection lifecycle: offer, on_connectionstatechange,
\* lifespan
\* ------------------------------------------------------------------------

Sessions == 1 .. MaxSessions

Created == {s \in Sessions : pcState[s] # "absent"}

\* A handler that forgets the discard.
RegistryKeep(reg, s) == [reg |-> reg, raised |-> FALSE]

\* pcs.remove(pc) in place of discard: KeyError when pc is not in the set.
RegistryRemove(reg, s) == [reg |-> reg \ {s}, raised |-> s \notin reg]

\* pcs.discard(pc): never raises.
RegistryDiscard(reg, s) == [reg |-> reg \ {s}, raised |-> FALSE]

LifeInit ==
    /\ pcs = {}
    /\ pcState = [s \in Sessions |-> "absent"]
    /\ closer = [s \in Sessions |-> "none"]
    /\ offerPc = [s \in Sessions |-> "none"]
    /\ hPending = [s \in Sessions |-> 0]
    /\ hWaiting = [s \in Sessions |-> 0]
    /\ hDone = [s \in Sessions |-> 0]
    /\ hFault = [s \in Sessions |-> FALSE]
    /\ released = [s \in Sessions |-> 0]
    /\ removals = [s \in Sessions |-> 0]
    /\ notified = 0
    /\ lsPc = "serving"
    /\ lsTasks = [s \in Sessions |-> "none"]

\* The event loop runs until the teardown of lifespan has completed.
Running == lsPc # "cleared"

\* offer(), to its first await on the connection: the pc is created and
\* added to pcs, the callbacks are registered, setRemoteDescription starts.
\* The code has no guard against a request served while the teardown of
\* lifespan is awaiting its gather.
Offer(s) ==
    /\ Running
    /\ pcState[s] = "absent"
    /\ \A t \in Sessions : t < s => pcState[t] # "absent"
    /\ pcState' = [pcState EXCEPT ![s] = "new"]
    /\ pcs' = pcs \cup {s}
    /\ offerPc' = [offerPc EXCEPT ![s] = "setRemoteDescription"]
    /\ UNCHANGED <<closer, hPending, hWaiting, hDone, hFault, released, removals,
                   notified, lsPc, lsTasks, drawVars, sockVars, ctlVars>>

NextAwait(at) ==
    CASE at = "setRemoteDescription" -> "createAnswer"
      [] at = "createAnswer" -> "setLocalDescription"
      [] at = "setLocalDescription" -> "returned"

Negotiating(s) == offerPc[s] \in {"setRemoteDescription", "createAnswer", "setLocalDescription"}

\* The awaited negotiation call returns (the pc must not have been closed).
OfferProceeds(s) ==
    /\ Running
    /\ Negotiating(s)
    /\ closer[s] = "none"
    /\ offerPc' = [offerPc EXCEPT ![s] = NextAwait(offerPc[s])]
    /\ UNCHANGED <<pcs, pcState, closer, hPending, hWaiting, hDone, hFault, released,
                   removals, notified, lsPc, lsTasks, drawVars, sockVars, ctlVars>>

\* The awaited negotiation call raises (an offer the library rejects, or a
\* pc closed meanwhile): offer() has no handler, the exception leaves it.
OfferRaises(s) ==
    /\ Running
    /\ Negotiating(s)
    /\ offerPc' = [offerPc EXCEPT ![s] = "raised"]
    /\ UNCHANGED <<pcs, pcState, closer, hPending, hWaiting, hDone, hFault, released,
                   removals, notified, lsPc, lsTasks, drawVars, sockVars, ctlVars>>

\* The library reports a connection state other than "failed" or "closed".
\* The on_connectionstatechange task of such a report does nothing when it
\* runs before a failure; one that runs after a failure acts as a repeated
\* failure notification (FailureNotifiedAgain).
ConnectionProgress(s) ==
    /\ Running
    /\ closer[s] = "none"
    /\ offerPc[s] \in {"setLocalDescription", "returned"}
    /\ pcState[s] \in {"new", "connecting"}
    /\ pcState' = [pcState EXCEPT ![s] = IF pcState[s] = "new" THEN "connecting" ELSE "connected"]
    /\ UNCHANGED <<pcs, closer, offerPc, hPending, hWaiting, hDone, hFault, released,
                   removals, notified, lsPc, lsTasks, drawVars, sockVars, ctlVars>>

\* The library reports "failed": an on_connectionstatechange task is created.
ConnectionFails(s) ==
    /\ Running
    /\ closer[s] = "none"
    /\ pcState[s] \in {"connecting", "connected"}
    /\ pcState' = [pcState EXCEPT ![s] = "failed"]
    /\ hPending' = [hPending EXCEPT ![s] = @ + 1]
    /\ UNCHANGED <<pcs, closer, offerPc, hWaiting, hDone, hFault, released,
                   removals, notified, lsPc, lsTasks, drawVars, sockVars, ctlVars>>

\* The failure notification fires once more for a failed session.
FailureNotifiedAgain(s) ==
    /\ Running
    /\ pcState[s] = "failed"
    /\ notified < MaxNotify
    /\ notified' = notified + 1
    /\ hPending' = [hPending EXCEPT ![s] = @ + 1]
    /\ UNCHANGED <<pcs, pcState, closer, offerPc, hWaiting, hDone, hFault, released,
                   removals, lsPc, lsTasks, drawVars, sockVars, ctlVars>>

\* pcs.discard(pc) at the end of on_connectionstatechange.
HandlerDiscards(s) ==
    /\ pcs' = RegistryDiscard(pcs, s).reg
    /\ hFault' = [hFault EXCEPT ![s] = @ \/ RegistryDiscard(pcs, s).raised]
    /\ removals' = [removals EXCEPT ![s] = IF pcs' # pcs THEN @ + 1 ELSE @]
    /\ hDone' = [hDone EXCEPT ![s] = IF RegistryDiscard(pcs, s).raised THEN @ ELSE Min2(@ + 1, 2)]

\* An on_connectionstatechange task runs and finds a state other than "failed".
HandlerSkips(s) ==
    /\ Running
    /\ hPending[s] > 0
    /\ pcState[s] # "failed"
    /\ hPending' = [hPending EXCEPT ![s] = @ - 1]
    /\ UNCHANGED <<pcs, pcState, closer, offerPc, hWaiting, hDone, hFault, released,
                   removals, notified, lsPc, lsTasks, drawVars, sockVars, ctlVars>>

\* An on_connectionstatechange task runs, finds "failed" and is the first to
\* call pc.close(): it starts the teardown and is suspended in it.
HandlerStartsClose(s) ==
    /\ Running
    /\ hPending[s] > 0
    /\ pcState[s] = "failed"
    /\ closer[s] = "none"
    /\ hPending' = [hPending EXCEPT ![s] = @ - 1]
    /\ closer' = [closer EXCEPT ![s] = "handler"]
    /\ UNCHANGED <<pcs, pcState, offerPc, hWaiting, hDone, hFault, released,
                   removals, notified, lsPc, lsTasks, drawVars, sockVars, ctlVars>>

\* An on_connectionstatechange task runs, finds "failed" and calls
\* pc.close() on a pc that is already closing, where close() returns at
\* once: the task goes on to pcs.discard(pc) without being suspended.
HandlerCloseReturnsAtOnce(s) ==
    /\ Running
    /\ hPending[s] > 0
    /\ pcState[s] = "failed"
    /\ closer[s] # "none"
    /\ hPending' = [hPending EXCEPT ![s] = @ - 1]
    /\ HandlerDiscards(s)
    /\ UNCHANGED <<pcState, closer, offerPc, hWaiting, released,
                   notified, lsPc, lsTasks, drawVars, sockVars, ctlVars>>

\* The same call, where close() waits for the teardown under way.
HandlerAwaitsClose(s) ==
    /\ Running
    /\ hPending[s] > 0
    /\ pcState[s] = "failed"
    /\ closer[s] # "none"
    /\ hPending' = [hPending EXCEPT ![s] = @ - 1]
    /\ hWaiting' = [hWaiting EXCEPT ![s] = @ + 1]
    /\ UNCHANGED <<pcs, pcState, closer, offerPc, hDone, hFault, released,
                   removals, notified, lsPc, lsTasks, drawVars, sockVars, ctlVars>>

\* The teardown started by a handler task completes: the transport is
\* released, the state is "closed", and the task goes on to pcs.discard(pc).
HandlerFinishesClose(s) ==
    /\ Running
    /\ closer[s] = "handler"
    /\ pcState[s] # "closed"
    /\ pcState' = [pcState EXCEPT ![s] = "closed"]
    /\ released' = [released EXCEPT ![s] = @ + 1]
    /\ HandlerDiscards(s)
    /\ UNCHANGED <<closer, offerPc, hPending, hWaiting, notified, lsPc, lsTasks,
                   drawVars, sockVars, ctlVars>>

\* A handler task that waited for the teardown resumes and discards.
HandlerResumes(s) ==
    /\ Running
    /\ hWaiting[s] > 0
    /\ pcState[s] = "closed"
    /\ hWaiting' = [hWaiting EXCEPT ![s] = @ - 1]
    /\ HandlerDiscards(s)
    /\ UNCHANGED <<pcState, closer, offerPc, hPending, released, notified, lsPc,
                   lsTasks, drawVars, sockVars, ctlVars>>

\* lifespan after yield: coros = [pc.close() for pc in pcs] and the start of
\* asyncio.gather(*coros), one task per session registered at this moment.
\* With no session registered the gather is done at once and pcs is cleared.
LifespanShutdown ==
    /\ lsPc = "serving"
    /\ lsTasks' = [s \in Sessions |-> IF s \in pcs THEN "pending" ELSE "none"]
    /\ lsPc' = IF pcs = {} THEN "cleared" ELSE "gathering"
    /\ UNCHANGED <<pcs, pcState, closer, offerPc, hPending, hWaiting, hDone, hFault,
                   released, removals, notified, drawVars, sockVars, ctlVars>>

\* A gathered task runs pc.close() and is the first caller: it starts the teardown.
LifespanStartsClose(s) ==
    /\ lsTasks[s] = "pending"
    /\ closer[s] = "none"
    /\ closer' = [closer EXCEPT ![s] = "lifespan"]
    /\ lsTasks' = [lsTasks EXCEPT ![s] = "closing"]
    /\ UNCHANGED <<pcs, pcState, offerPc, hPending, hWaiting, hDone, hFault, released,
                   removals, notified, lsPc, drawVars, sockVars, ctlVars>>

\* A gathered task runs pc.close() on a pc already closing or closed, where
\* close() returns at once.
LifespanCloseReturnsAtOnce(s) ==
    /\ lsTasks[s] = "pending"
    /\ closer[s] # "none"
    /\ lsTasks' = [lsTasks EXCEPT ![s] = "done"]
    /\ UNCHANGED <<pcs, pcState, closer, offerPc, hPending, hWaiting, hDone, hFault,
                   released, removals, notified, lsPc, drawVars, sockVars, ctlVars>>

\* The same call, where close() waits for the teardown under way.
LifespanAwaitsClose(s) ==
    /\ lsTasks[s] = "pending"
    /\ closer[s] # "none"
    /\ pcState[s] # "closed"
    /\ lsTasks' = [lsTasks EXCEPT ![s] = "waiting"]
    /\ UNCHANGED <<pcs, pcState, closer, offerPc, hPending, hWaiting, hDone, hFault,
                   released, removals, notified, lsPc, drawVars, sockVars, ctlVars>>

\* The teardown started by a gathered task completes.
LifespanFinishesClose(s) ==
    /\ lsTasks[s] = "closing"
    /\ pcState' = [pcState EXCEPT ![s] = "closed"]
    /\ released' = [released EXCEPT ![s] = @ + 1]
    /\ lsTasks' = [lsTasks EXCEPT ![s] = "done"]
    /\ UNCHANGED <<pcs, closer, offerPc, hPending, hWaiting, hDone, hFault,
                   removals, notified, lsPc, drawVars, sockVars, ctlVars>>

\* A gathered task that waited for the teardown resumes and ends.
LifespanResumes(s) ==
    /\ lsTasks[s] = "waiting"
    /\ pcState[s] = "closed"
    /\ lsTasks' = [lsTasks EXCEPT ![s] = "done"]
    /\ UNCHANGED <<pcs, pcState, closer, offerPc, hPending, hWaiting, hDone, hFault,
                   released, removals, notified, lsPc, drawVars, sockVars, ctlVars>>

\* Every gathered task has ended: lifespan resumes with pcs.clear().
LifespanClears ==
    /\ lsPc = "gathering"
    /\ \A s \in Sessions : lsTasks[s] \in {"none", "done"}
    /\ pcs' = {}
    /\ removals' = [s \in Sessions |-> IF s \in pcs THEN removals[s] + 1 ELSE removals[s]]
    /\ lsPc' = "cleared"
    /\ UNCHANGED <<pcState, closer, offerPc, hPending, hWaiting, hDone, hFault,
                   released, notified, lsTasks, drawVars, sockVars, ctlVars>>

LifeNext ==
    \/ \E s \in Sessions : Offer(s)
    \/ \E s \in Sessions : OfferProceeds(s)
    \/ \E s \in Sessions : OfferRaises(s)
    \/ \E s \in Sessions : ConnectionProgress(s)
    \/ \E s \in Sessions : ConnectionFails(s)
    \/ \E s \in Sessions : FailureNotifiedAgain(s)
    \/ \E s \in Sessions : HandlerSkips(s)
    \/ \E s \in Sessions : HandlerStartsClose(s)
    \/ \E s \in Sessions : HandlerCloseReturnsAtOnce(s)
    \/ \E s \in Sessions : HandlerAwaitsClose(s)
    \/ \E s \in Sessions : HandlerFinishesClose(s)
    \/ \E s \in Sessions : HandlerResumes(s)
    \/ LifespanShutdown
    \/ \E s \in Sessions : LifespanStartsClose(s)
    \/ \E s \in Sessions : LifespanCloseReturnsAtOnce(s)
    \/ \E s \in Sessions : LifespanAwaitsClose(s)
    \/ \E s \in Sessions : LifespanFinishesClose(s)
    \/ \E s \in Sessions : LifespanResumes(s)
    \/ LifespanClears

\* The sessions of the teardown specification.
TeardownSessions == 1 .. MaxTeardown

TeardownNext ==
    \/ \E s \in TeardownSessions : Offer(s)
    \/ \E s \in TeardownSessions : OfferProceeds(s)
    \/ \E s \in TeardownSessions : OfferRaises(s)
    \/ \E s \in TeardownSessions : ConnectionProgress(s)
    \/ \E s \in TeardownSessions : ConnectionFails(s)
    \/ \E s \in TeardownSessions : FailureNotifiedAgain(s)
    \/ \E s \in TeardownSessions : HandlerSkips(s)
    \/ \E s \in TeardownSessions : HandlerStartsClose(s)
    \/ \E s \in TeardownSessions : HandlerCloseReturnsAtOnce(s)
    \/ \E s \in TeardownSessions : HandlerAwaitsClose(s)
    \/ \E s \in TeardownSessions : HandlerFinishesClose(s)
    \/ \E s \in TeardownSessions : HandlerResumes(s)
    \/ LifespanShutdown
    \/ \E s \in TeardownSessions : LifespanStartsClose(s)
    \/ \E s \in TeardownSessions : LifespanCloseReturnsAtOnce(s)
    \/ \E s \in TeardownSessions : LifespanAwaitsClose(s)
    \/ \E s \in TeardownSessions : LifespanFinishesClose(s)
    \/ \E s \in TeardownSessions : LifespanResumes(s)
    \/ LifespanClears

\* One on_connectionstatechange task runs to its first suspension or its end.
HandlerRuns(s) ==
    \/ HandlerSkips(s)
    \/ HandlerStartsClose(s)
    \/ HandlerCloseReturnsAtOnce(s)
    \/ HandlerAwaitsClose(s)

\* One gathered close() task runs to its first suspension or its end.
LifespanTaskRuns(s) ==
    \/ LifespanStartsClose(s)
    \/ LifespanCloseReturnsAtOnce(s)
    \/ LifespanAwaitsClose(s)

\* The event loop runs every task that is ready, and a teardown under way
\* completes. Nothing obliges the process to shut down, a peer to send an
\* offer or a connection to change state.
TeardownFairness ==
    /\ \A s \in TeardownSessions : WF_vars(HandlerRuns(s))
    /\ \A s \in TeardownSessions : WF_vars(HandlerFinishesClose(s))
    /\ \A s \in TeardownSessions : WF_vars(HandlerResumes(s))
    /\ \A s \in TeardownSessions : WF_vars(LifespanTaskRuns(s))
    /\ \A s \in TeardownSessions : WF_vars(LifespanFinishesClose(s))
    /\ \A s \in TeardownSessions : WF_vars(LifespanResumes(s))
    /\ WF_vars(LifespanClears)

\* ------------------------------------------------------------------------
\* websocket_endpoint
\* ------------------------------------------------------------------------

\* A text frame: its JSON value, or text that json.loads rejects.
Text(parses, json) == [parses |-> parses, json |-> json]

SampleImage == BlankImage(3, 3)

ColorJson(r, g, b) == JObj("r" :> JNum(r) @@ "g" :> JNum(g) @@ "b" :> JNum(b))

FrameMsg(payload) == Text(TRUE, JObj("type" :> JStr("frame") @@ "payload" :> payload))

ImageSeg == Segment("image", SampleImage)

\* "frame" messages whose payload process_frame accepts.
GoodFrames ==
    {FrameMsg(JObj("data" :> JData(<<HeaderSeg, ImageSeg>>) @@ "avgColor" :> ColorJson(10, 20, 30))),
     FrameMsg(JObj("data" :> JData(<<ImageSeg>>) @@ "avgColor" :> ColorJson(255, 0, 128)))}

\* "frame" messages whose image bytes the decoder cannot decode.
UndecodableFrames ==
    {FrameMsg(JObj("data" :> JData(<<HeaderSeg, Segment("garbage", NoImage)>>)
                   @@ "avgColor" :> ColorJson(10, 20, 30))),
     FrameMsg(JObj("data" :> JData(<<Segment("header", NoImage)>>) @@ "avgColor" :> ColorJson(10, 20, 30)))}

\* "frame" messages that fail elsewhere in process_frame.
BrokenFrames ==
    {FrameMsg(JObj("avgColor" :> ColorJson(10, 20, 30))),
     FrameMsg(JObj("data" :> JData(<<ImageSeg>>))),
     FrameMsg(JObj("data" :> JData(<<ImageSeg>>) @@ "avgColor" :> JObj("r" :> JNum(1) @@ "b" :> JNum(2)))),
     FrameMsg(JObj("data" :> JData(<<Segment("badpad", NoImage)>>) @@ "avgColor" :> ColorJson(10, 20, 30)))}

\* Texts that are not "frame" messages at all.
OtherTexts ==
    {Text(TRUE, JObj("type" :> JStr("ping") @@ "payload" :> JNull)),
     Text(TRUE, JObj("payload" :> JNull)),
     Text(TRUE, JNum(7)),
     Text(FALSE, JNull)}

WsTexts == GoodFrames \cup UndecodableFrames \cup BrokenFrames \cup OtherTexts

IsFrameWith(text, frames) == text \in frames

\* What one pass of the loop body does with a received text, up to the
\* next await: json.loads, the dispatch on message["type"], process_frame.
HandleText(text) ==
    IF ~text.parses THEN Raise("JSONDecodeError")
    ELSE IF text.json.t # "obj" THEN Raise("TypeError")
    ELSE IF ~HasKey(text.json, "type") THEN Raise("KeyError: 'type'")
    ELSE IF text.json.f["type"] # JStr("frame")
         THEN [ok |-> TRUE, exc |-> "", value |-> JNull, drew |-> 0, encoded |-> 0]
    ELSE IF ~HasKey(text.json, "payload") THEN Raise("KeyError: 'payload'")
    ELSE ProcessFrame(text.json.f["payload"])

Received(text, res) == [text |-> text, drew |-> res.drew, encoded |-> res.encoded]

SendCall(req, type, payload, delivered) ==
    [req |-> req, type |-> type, payload |-> payload, delivered |-> delivered]

SockInit ==
    /\ wsPc = "receive"
    /\ wsPeerOpen = TRUE
    /\ wsIn = <<>>
    /\ wsSends = <<>>
    /\ wsPending = JNull

\* The peer goes away (closes the connection, or the network drops).
WsPeerCloses ==
    /\ wsPeerOpen
    /\ wsPc # "returned"
    /\ wsPeerOpen' = FALSE
    /\ UNCHANGED <<wsPc, wsIn, wsSends, wsPending, drawVars, lifeVars, ctlVars>>

\* receive_text() returns a text whose "type" is not "frame": the loop goes
\* round without a reply.
WsReceiveIgnored(text) ==
    /\ wsPc = "receive"
    /\ wsPeerOpen
    /\ Len(wsIn) < MaxMsgs
    /\ HandleText(text).ok
    /\ HandleText(text).value = JNull
    /\ wsIn' = Append(wsIn, Received(text, HandleText(text)))
    /\ UNCHANGED <<wsPc, wsPeerOpen, wsSends, wsPending, drawVars, lifeVars, ctlVars>>

\* receive_text() returns a "frame" message that process_frame handles.
WsReceiveFrame(text) ==
    /\ wsPc = "receive"
    /\ wsPeerOpen
    /\ Len(wsIn) < MaxMsgs
    /\ HandleText(text).ok
    /\ HandleText(text).value # JNull
    /\ wsIn' = Append(wsIn, Received(text, HandleText(text)))
    /\ wsPending' = HandleText(text).value
    /\ wsPc' = "send_processed"
    /\ UNCHANGED <<wsPeerOpen, wsSends, drawVars, lifeVars, ctlVars>>

\* receive_text() returns a text whose handling raises: control leaves the
\* while loop for the except clause.
WsReceiveRaises(text) ==
    /\ wsPc = "receive"
    /\ wsPeerOpen
    /\ Len(wsIn) < MaxMsgs
    /\ ~HandleText(text).ok
    /\ wsIn' = Append(wsIn, Received(text, HandleText(text)))
    /\ wsPending' = JStr(HandleText(text).exc)
    /\ wsPc' = "send_error"
    /\ UNCHANGED <<wsPeerOpen, wsSends, drawVars, lifeVars, ctlVars>>

\* receive_text() raises WebSocketDisconnect.
WsReceiveDisconnect ==
    /\ wsPc = "receive"
    /\ ~wsPeerOpen
    /\ wsPending' = JStr("WebSocketDisconnect")
    /\ wsPc' = "send_error"
    /\ UNCHANGED <<wsPeerOpen, wsIn, wsSends, drawVars, lifeVars, ctlVars>>

\* send_text of the "processed" message: delivered, or raising when the
\* peer is gone (the except clause then takes over).
WsSendProcessed ==
    /\ wsPc = "send_processed"
    /\ wsSends' = Append(wsSends, SendCall(Len(wsIn), "processed", wsPending, wsPeerOpen))
    /\ wsPc' = IF wsPeerOpen THEN "receive" ELSE "send_error"
    /\ wsPending' = IF wsPeerOpen THEN JNull ELSE JStr("RuntimeError")
    /\ UNCHANGED <<wsPeerOpen, wsIn, drawVars, lifeVars, ctlVars>>

\* An except clause that sends the "error" message outside any try: a
\* failure of that send leaves the endpoint as an exception.
WsSendErrorUnguarded ==
    /\ wsPc = "send_error"
    /\ wsSends' = Append(wsSends, SendCall(Len(wsIn), "error", wsPending, wsPeerOpen))
    /\ wsPc' = IF wsPeerOpen THEN "returned" ELSE "raised"
    /\ wsPending' = JNull
    /\ UNCHANGED <<wsPeerOpen, wsIn, drawVars, lifeVars, ctlVars>>

\* The except clause: send_text of the "error" message, a failure of that
\* send swallowed; the function then returns.
WsSendError ==
    /\ wsPc = "send_error"
    /\ wsSends' = Append(wsSends, SendCall(Len(wsIn), "error", wsPending, wsPeerOpen))
    /\ wsPc' = "returned"
    /\ wsPending' = JNull
    /\ UNCHANGED <<wsPeerOpen, wsIn, drawVars, lifeVars, ctlVars>>

SockNext ==
    \/ WsPeerCloses
    \/ \E text \in WsTexts : WsReceiveIgnored(text)
    \/ \E text \in WsTexts : WsReceiveFrame(text)
    \/ \E text \in WsTexts : WsReceiveRaises(text)
    \/ WsReceiveDisconnect
    \/ WsSendProcessed
    \/ WsSendError

DrawNext ==
    \/ DrawRectangle
    \/ DrawCircle

\* ------------------------------------------------------------------------
\* VideoTransformTrack, on_track, on_datachannel / on_message
\* ------------------------------------------------------------------------

\* A data-channel message: a str carrying a text, or bytes.
StrMessage(text) == [kind |-> "str", text |-> text]

BytesMessage == [kind |-> "bytes", text |-> Text(FALSE, JNull)]

\* Colour updates with r, g and b present.
ColorMessages ==
    {StrMessage(Text(TRUE, ColorJson(255, 0, 0))),
     StrMessage(Text(TRUE, ColorJson(0, 255, 0))),
     StrMessage(Text(TRUE, ColorJson(10, 20, 300)))}

\* Payloads that are not parseable as a colour: invalid JSON, JSON that is
\* no object, an object without "b", an object without "r".
MalformedMessages ==
    {StrMessage(Text(FALSE, JNull)),
     StrMessage(Text(TRUE, JNum(7))),
     StrMessage(Text(TRUE, JObj("r" :> JNum(9) @@ "g" :> JNum(9)))),
     StrMessage(Text(TRUE, JObj("g" :> JNum(9) @@ "b" :> JNum(9))))}

CtlMessages == ColorMessages \cup MalformedMessages \cup {BytesMessage}

\* A VideoFrame without timing: what VideoFrame.from_ndarray returns.
NoFrame == [pts |-> -1, time_base |-> <<0, 1>>, img |-> NoImage]

FromNdarray(img) == [NoFrame EXCEPT !.img = img]

\* The frames the relayed inbound track delivers: the n-th of a track.
FrameDims == {<<4, 3>>}

InboundFrame(n, dim) == [pts |-> n * 3000, time_base |-> <<1, 90000>>, img |-> BlankImage(dim[1], dim[2])]

\* A transform track that starts with the colour (255, 255, 255).
NewTrackWhite == [color |-> <<255, 255, 255>>, last |-> JNull, pulled |-> 0, out |-> NoFrame, used |-> Black]

\* VideoTransformTrack.__init__: self.color = (0, 0, 0).
NewTrack == [color |-> Black, last |-> JNull, pulled |-> 0, out |-> NoFrame, used |-> Black]

\* set_color that stores the channels in the order r, g, b.
SetColorRgbOrder(cur, color) ==
    IF color.t = "obj" /\ {"b", "g", "r"} \subseteq DOMAIN color.f
    THEN [raised |-> FALSE, color |-> <<color.f["r"].n, color.f["g"].n, color.f["b"].n>>]
    ELSE [raised |-> TRUE, color |-> cur]

\* set_color that assigns channel by channel (b, then g, then r) and so
\* keeps the channels assigned before a failing subscript.
SetColorChannelwise(cur, color) ==
    IF color.t # "obj" THEN [raised |-> TRUE, color |-> cur]
    ELSE IF "b" \notin DOMAIN color.f THEN [raised |-> TRUE, color |-> cur]
    ELSE IF "g" \notin DOMAIN color.f THEN [raised |-> TRUE, color |-> <<color.f["b"].n, cur[2], cur[3]>>]
    ELSE IF "r" \notin DOMAIN color.f
         THEN [raised |-> TRUE, color |-> <<color.f["b"].n, color.f["g"].n, cur[3]>>]
    ELSE [raised |-> FALSE, color |-> <<color.f["b"].n, color.f["g"].n, color.f["r"].n>>]

\* VideoTransformTrack.set_color: the tuple is built from color["b"],
\* color["g"], color["r"] and then assigned; a failing subscript raises
\* before anything is assigned.
SetColor(cur, color) ==
    IF color.t = "obj" /\ {"b", "g", "r"} \subseteq DOMAIN color.f
    THEN [raised |-> FALSE, color |-> <<color.f["b"].n, color.f["g"].n, color.f["r"].n>>]
    ELSE [raised |-> TRUE, color |-> cur]

\* recv that returns the new frame as VideoFrame.from_ndarray made it, with
\* no pts and no time base.
TransformFrameNoTiming(color, frame) ==
    FromNdarray(Draw(AppShape, frame.img, color, AppSizeFactor))

\* VideoTransformTrack.recv after the inbound frame has arrived: the frame
\* as an array, the shape drawn with self.color, the new frame with the
\* timing of the inbound one.
TransformFrame(color, frame) ==
    [FromNdarray(Draw(AppShape, frame.img, color, AppSizeFactor))
        EXCEPT !.pts = frame.pts, !.time_base = frame.time_base]

\* on_message up to set_color: the colour of the bound track afterwards.
\* Bytes are ignored; an exception of json.loads or of set_color is caught
\* and printed.
ColorAfterMessage(cur, message) ==
    IF message.kind # "str" THEN cur
    ELSE IF ~message.text.parses THEN cur
    ELSE SetColor(cur, message.text.json).color

\* A session whose callbacks can fire: its pc exists and is not being closed.
Live(s) == pcState[s] \notin {"absent", "closed"} /\ closer[s] = "none"

\* How the interface of the control channel classes a message.
ClassOf(message) ==
    IF message \in ColorMessages THEN "color"
    ELSE IF message \in MalformedMessages THEN "malformed"
    ELSE "bytes"

NoCtl == [to |-> 0, class |-> "none", pulled |-> FALSE]

CtlInit ==
    /\ vtt = [s \in Sessions |-> 0]
    /\ tracks = [s \in Sessions |-> <<>>]
    /\ ctlCount = 0
    /\ frameCount = 0
    /\ lastCtl = NoCtl

RECURSIVE TrackSum(_)

TrackSum(n) == IF n = 0 THEN 0 ELSE Len(tracks[n]) + TrackSum(n - 1)

\* The transform tracks created so far, over all sessions.
TotalTracks == TrackSum(MaxSessions)

\* on_track that binds video_transform_track only when none is bound yet: a
\* later track gets its transform track, the first stays the target.
OnVideoTrackKeepsFirst(s) ==
    /\ Running
    /\ Live(s)
    /\ TotalTracks < MaxTracks
    /\ tracks' = [tracks EXCEPT ![s] = Append(@, NewTrack)]
    /\ vtt' = [vtt EXCEPT ![s] = IF @ = 0 THEN 1 ELSE @]
    /\ UNCHANGED <<ctlCount, frameCount, lastCtl, drawVars, sockVars, lifeVars>>

\* on_track with a video track: a new VideoTransformTrack becomes
\* video_transform_track and is added to the pc. (A track of another kind
\* changes nothing.)
OnVideoTrack(s) ==
    /\ Running
    /\ Live(s)
    /\ TotalTracks < MaxTracks
    /\ tracks' = [tracks EXCEPT ![s] = Append(@, NewTrack)]
    /\ vtt' = [vtt EXCEPT ![s] = Len(tracks[s]) + 1]
    /\ UNCHANGED <<ctlCount, frameCount, lastCtl, drawVars, sockVars, lifeVars>>

\* on_message with no video_transform_track yet: the message is dropped.
OnMessageUnbound(s, message) ==
    /\ Running
    /\ Live(s)
    /\ ctlCount < MaxCtl
    /\ vtt[s] = 0
    /\ ctlCount' = ctlCount + 1
    /\ lastCtl' = [to |-> s, class |-> ClassOf(message), pulled |-> FALSE]
    /\ UNCHANGED <<vtt, tracks, frameCount, drawVars, sockVars, lifeVars>>

\* One video_transform_track shared by all calls of offer (a module-level
\* variable): the target is the bound track of the latest session that has one.
TargetShared(s) ==
    LET t == CHOOSE t \in Sessions : vtt[t] # 0 /\ \A u \in Sessions : vtt[u] # 0 => u <= t
    IN  [session |-> t, index |-> vtt[t]]

\* The track on_message of session s updates: video_transform_track, a
\* variable of that session's call of offer (nonlocal).
Target(s) == [session |-> s, index |-> vtt[s]]

\* on_message with a video_transform_track.
OnMessageBound(s, message) ==
    /\ Running
    /\ Live(s)
    /\ ctlCount < MaxCtl
    /\ vtt[s] # 0
    /\ ctlCount' = ctlCount + 1
    /\ lastCtl' = [to |-> s, class |-> ClassOf(message), pulled |-> FALSE]
    /\ tracks' = [tracks EXCEPT ![Target(s).session][Target(s).index] =
                    [@ EXCEPT !.color = ColorAfterMessage(@, message),
                              !.last = IF ClassOf(message) = "color" THEN message.text.json ELSE @]]
    /\ UNCHANGED <<vtt, frameCount, drawVars, sockVars, lifeVars>>

\* recv of the k-th transform track of a session: the inbound frame arrives
\* and is transformed with the colour the track has at that moment.
Recv(s, k, dim) ==
    /\ Running
    /\ Live(s)
    /\ frameCount < MaxFrames
    /\ k \in 1 .. Len(tracks[s])
    /\ frameCount' = frameCount + 1
    /\ tracks' = [tracks EXCEPT ![s][k] =
                    [out |-> TransformFrame(@.color, InboundFrame(@.pulled, dim)),
                     used |-> @.color,
                     pulled |-> @.pulled + 1,
                     color |-> @.color,
                     last |-> @.last]]
    /\ lastCtl' = IF lastCtl.to = s /\ vtt[s] = k THEN [lastCtl EXCEPT !.pulled = TRUE] ELSE lastCtl
    /\ UNCHANGED <<vtt, ctlCount, drawVars, sockVars, lifeVars>>

ControlNext ==
    \/ \E s \in Sessions : Offer(s)
    \/ \E s \in Sessions : OnVideoTrack(s)
    \/ \E s \in Sessions, message \in CtlMessages : OnMessageUnbound(s, message)
    \/ \E s \in Sessions, message \in CtlMessages : OnMessageBound(s, message)
    \/ \E s \in Sessions, k \in 1 .. MaxTracks, dim \in FrameDims : Recv(s, k, dim)

\* ------------------------------------------------------------------------
\* Specifications
\* ------------------------------------------------------------------------

InitDraw == DrawInit /\ SockInit /\ LifeInit /\ CtlInit

\* The overlay alone: every input, one draw.
SpecDraw == InitDraw /\ [][DrawNext]_vars

InitConfig == ConfigInit /\ SockInit /\ LifeInit /\ CtlInit

\* The overlay driven by a configuration built by AppConfig.
SpecConfig == InitConfig /\ [][DrawNext]_vars

InitSocket == DrawIdle /\ SockInit /\ LifeInit /\ CtlInit

\* One message-socket connection.
SpecSocket == InitSocket /\ [][SockNext]_vars

InitLife == DrawIdle /\ SockInit /\ LifeInit /\ CtlInit

\* The registry and the sessions' connection lifecycle.
SpecLife == InitLife /\ [][LifeNext]_vars

InitTeardown == DrawIdle /\ SockInit /\ LifeInit /\ CtlInit

\* The teardown of a session, every interleaving of its failure
\* notifications with shutdown.
SpecTeardown == InitTeardown /\ [][TeardownNext]_vars

InitTeardownFair == DrawIdle /\ SockInit /\ LifeInit /\ CtlInit

\* The same, with the scheduling the event loop guarantees.
SpecTeardownFair == InitTeardownFair /\ [][TeardownNext]_vars /\ TeardownFairness

InitControl == DrawIdle /\ SockInit /\ LifeInit /\ CtlInit

\* The control channel and the transform tracks of the sessions.
SpecControl == InitControl /\ [][ControlNext]_vars

\* ------------------------------------------------------------------------
\* Properties of the registry and the connection lifecycle
\* ------------------------------------------------------------------------

Terminal(s) == pcState[s] \in {"failed", "closed"}

\* C1: a session whose connection has reached "failed" or "closed" is
\* eventually out of the registry, whether or not the process ever shuts
\* down (the fairness of SpecTeardownFair obliges no shutdown).
C1_TerminalSessionLeavesRegistry ==
    \A s \in Sessions : Terminal(s) ~> (s \notin pcs)

\* C1, its case: a failed session was closed and discarded by its
\* on_connectionstatechange task while the process keeps serving.
C1_Witness ==
    \E s \in Sessions :
        /\ pcState[s] = "closed"
        /\ closer[s] = "handler"
        /\ hDone[s] > 0
        /\ s \notin pcs
        /\ lsPc = "serving"

\* C2: when the teardown of lifespan has completed the registry is empty and
\* every session that was ever registered and is no longer in the registry
\* has had close() called on it.
C2_ShutdownClosesEverySession ==
    lsPc = "cleared" =>
        /\ pcs = {}
        /\ \A s \in Created \ pcs : closer[s] # "none"

\* C3: once offer() has ended with an exception of the negotiation, its
\* session is not in the registry.
C3_FailedNegotiationDeregisters ==
    \A s \in Sessions : offerPc[s] = "raised" => s \notin pcs

\* C4: however often the failure notification fires, and with shutdown
\* closing the same session, the transport is released at most once, the
\* session is taken out of the registry at most once, no handler task ends
\* with an exception, and a session whose handler has gone through close and
\* discard is not in the registry; a closed session has been released once.
C4_FailedSessionReleasedOnce ==
    \A s \in Sessions :
        /\ released[s] <= 1
        /\ removals[s] <= 1
        /\ ~hFault[s]
        /\ hDone[s] > 0 => (s \notin pcs /\ removals[s] = 1)
        /\ pcState[s] = "closed" => released[s] = 1

\* C4, its case: the failure notification of one session fired more than
\* once, two handler tasks went through close and discard, and shutdown
\* closed the same session too.
C4_Witness ==
    \E s \in Sessions :
        /\ hDone[s] = 2
        /\ lsTasks[s] = "done"
        /\ pcState[s] = "closed"
        /\ released[s] = 1
        /\ removals[s] = 1
        /\ s \notin pcs

\* ------------------------------------------------------------------------
\* Properties of the control channel and the transform tracks
\* ------------------------------------------------------------------------

\* The buffer colour of a colour update {r, g, b}; (0, 0, 0) before any.
Expected(last) == IF last.t = "null" THEN Black ELSE <<last.f["b"].n, last.f["g"].n, last.f["r"].n>>

\* A frame is pulled on track k of session s in this step.
Pulls(s, k) == k <= Len(tracks[s]) /\ tracks'[s][k].pulled # tracks[s][k].pulled

Centre(img) == img.px[<<img.width \div 2, img.height \div 2>>]

\* C5: every frame is drawn with one whole colour, that of the last colour
\* update delivered to its track before the frame's colour was read, or
\* (0, 0, 0) if there was none; and the colour a track holds is always that
\* of the last colour update delivered to it.
C5_FrameUsesLastUpdate ==
    [][\A s \in Sessions : \A k \in 1 .. MaxTracks :
         /\ Pulls(s, k) =>
               /\ tracks'[s][k].used = Expected(tracks[s][k].last)
               /\ Centre(tracks'[s][k].out.img) = Stored(Expected(tracks[s][k].last))
         /\ k <= Len(tracks'[s]) => tracks'[s][k].color = Expected(tracks'[s][k].last)]_vars

\* C5, its case: two colour updates, the second {0, 255, 0}, then a frame
\* pulled on the track they were delivered to, drawn in (0, 255, 0).
C5_Witness ==
    \E s \in Sessions :
        /\ Len(tracks[s]) = 1
        /\ ctlCount = 2
        /\ lastCtl = [to |-> s, class |-> "color", pulled |-> TRUE]
        /\ tracks[s][1].last = ColorJson(0, 255, 0)
        /\ tracks[s][1].pulled = 1
        /\ tracks[s][1].used = <<0, 255, 0>>
        /\ Centre(tracks[s][1].out.img) = <<0, 255, 0>>

\* C6: the delivery of a malformed control message changes no track's
\* colour, no binding, no connection state and not the registry; and a frame
\* pulled on the bound track while that message is the last one delivered
\* is drawn with the colour the track had before it.
C6_MalformedMessageIgnored ==
    [][/\ (ctlCount' # ctlCount /\ lastCtl'.class = "malformed") =>
            /\ \A s \in Sessions :
                  /\ Len(tracks'[s]) = Len(tracks[s])
                  /\ \A k \in 1 .. Len(tracks[s]) : tracks'[s][k].color = tracks[s][k].color
            /\ vtt' = vtt
            /\ pcState' = pcState
            /\ pcs' = pcs
       /\ \A s \in Sessions : \A k \in 1 .. MaxTracks :
            (Pulls(s, k) /\ lastCtl.class = "malformed" /\ lastCtl.to = s /\ vtt[s] = k) =>
                /\ tracks'[s][k].used = tracks[s][k].color
                /\ tracks'[s][k].used = Expected(tracks[s][k].last)]_vars

\* C6, its case: a track that holds the colour of an update, then a
\* malformed message, then a frame, drawn in the colour of the update.
C6_Witness ==
    /\ lastCtl.class = "malformed"
    /\ lastCtl.pulled
    /\ \E s \in Sessions :
        /\ lastCtl.to = s
        /\ vtt[s] # 0
        /\ tracks[s][vtt[s]].last = ColorJson(255, 0, 0)
        /\ tracks[s][vtt[s]].pulled = 1
        /\ tracks[s][vtt[s]].used = <<0, 0, 255>>
        /\ s \in pcs

\* ------------------------------------------------------------------------
\* Properties of the message socket
\* ------------------------------------------------------------------------

SendsFor(i, type) == {j \in 1 .. Len(wsSends) : wsSends[j].req = i /\ wsSends[j].type = type}

\* C7: once an "error" message has been delivered the endpoint goes on
\* receiving on the connection.
C7_ErrorKeepsConnection ==
    (\E j \in 1 .. Len(wsSends) : wsSends[j].type = "error" /\ wsSends[j].delivered)
        => wsPc # "returned"

\* C8: for a "frame" message whose image cannot be decoded nothing is drawn
\* and nothing encoded, no "processed" message is sent, and once the
\* endpoint is through with it exactly one "error" message has been sent,
\* carrying the decode error.
C8_UndecodableFrameAnswered ==
    \A i \in 1 .. Len(wsIn) :
        wsIn[i].text \in UndecodableFrames =>
            /\ wsIn[i].drew = 0
            /\ wsIn[i].encoded = 0
            /\ SendsFor(i, "processed") = {}
            /\ Cardinality(SendsFor(i, "error")) <= 1
            /\ \A j \in SendsFor(i, "error") :
                  /\ wsSends[j].payload = JStr("ValueError: Failed to decode image")
                  /\ wsSends[j].delivered \/ ~wsPeerOpen
            /\ (i < Len(wsIn) \/ wsPc \in {"receive", "returned"}) =>
                  Cardinality(SendsFor(i, "error")) = 1

\* C8, its case: an undecodable frame was received and its "error" message
\* delivered.
C8_Witness ==
    /\ Len(wsIn) > 0
    /\ wsIn[Len(wsIn)].text \in UndecodableFrames
    /\ wsPc = "returned"
    /\ \E j \in SendsFor(Len(wsIn), "error") : wsSends[j].delivered

\* ------------------------------------------------------------------------
\* Properties of the overlay
\* ------------------------------------------------------------------------

\* The region of ext_w x ext_h pixels whose first pixel is the centred origin.
CentredBlock(w, h, sf) ==
    {p \in Pixels(w, h) :
        /\ RectOrigin(w, sf) <= p[1] /\ p[1] < RectOrigin(w, sf) + RectExtent(w, sf)
        /\ RectOrigin(h, sf) <= p[2] /\ p[2] < RectOrigin(h, sf) + RectExtent(h, sf)}

\* The computed extent is degenerate.
Degenerate ==
    \/ dShape = "rectangle" /\ (RectExtent(dImg.width, dFactor) = 0 \/ RectExtent(dImg.height, dFactor) = 0)
    \/ dShape = "circle" /\ CircleRadius(dImg.width, dImg.height, dFactor) = 0

\* C9: the rectangle draw of a black buffer with extents that are not 0
\* changes exactly the floor(width * f) by floor(height * f) pixels that
\* start at the centred origin ((dimension - extent) div 2), and sets them
\* to the colour.
C9_RectangleFillsExactRegion ==
    (dDone /\ dShape = "rectangle" /\ ~Degenerate) =>
        /\ Changed(dBefore, dImg) = CentredBlock(dImg.width, dImg.height, dFactor)
        /\ \A p \in Changed(dBefore, dImg) : dImg.px[p] = dColor

\* C10: a draw whose extent is degenerate (rectangle width or height 0,
\* circle radius 0) changes no pixel.
C10_DegenerateDrawsNothing ==
    (dDone /\ Degenerate) => Changed(dBefore, dImg) = {}

\* The region the draw of the configured shape hands to OpenCV.
Requested ==
    IF dShape = "rectangle"
    THEN RectangleRegion(dImg.width, dImg.height, dFactor)
    ELSE CircleRegion(dImg.width, dImg.height, dFactor)

\* C11: for every size factor in (0, 1] and every buffer of at least 1 x 1,
\* the region the rectangle or circle draw requests (corners x .. x +
\* rect_width, y .. y + rect_height; centre plus or minus radius) lies inside
\* the buffer 0 .. width - 1 by 0 .. height - 1.
C11_RequestedRegionInsideBuffer ==
    dDone => Requested \subseteq Pixels(dImg.width, dImg.height)

InRange(sf) == 0 < sf[1] /\ sf[1] <= sf[2]

\* C12: no configuration holds a size factor outside (0, 1], so no draw is
\* made with one.
C12_NoDrawOutOfRange ==
    dDone => InRange(dFactor)

\* C13: every frame recv returns has the presentation timestamp and the
\* time base of the inbound frame it was made from (the next frame of the
\* relayed track), whatever colour the track holds.
C13_TimingPreserved ==
    [][\A s \in Sessions : \A k \in 1 .. MaxTracks :
         Pulls(s, k) =>
            \E dim \in FrameDims :
                /\ tracks'[s][k].out.pts = InboundFrame(tracks[s][k].pulled, dim).pts
                /\ tracks'[s][k].out.time_base = InboundFrame(tracks[s][k].pulled, dim).time_base
                /\ tracks'[s][k].out.img.width = dim[1]
                /\ tracks'[s][k].out.img.height = dim[2]]_vars

\* C13, its case: a frame returned by a track that holds the colour of an
\* update, with the timing of the inbound frame.
C13_Witness ==
    \E s \in Sessions :
        /\ Len(tracks[s]) >= 1
        /\ tracks[s][1].pulled = 1
        /\ tracks[s][1].used # Black
        /\ tracks[s][1].out.time_base = <<1, 90000>>
        /\ tracks[s][1].out.pts = InboundFrame(0, <<4, 3>>).pts

\* The avgColor of the payload of the i-th text received.
RequestColor(i) == wsIn[i].text.json.f["payload"].f["avgColor"]

\* C14: the avgColor of every "processed" reply is the avgColor of the
\* "frame" message it answers, channel for channel, and a frame that was
\* processed and whose reply has been sent got exactly that one reply.
C14_AvgColorEchoed ==
    /\ \A j \in 1 .. Len(wsSends) :
          wsSends[j].type = "processed" =>
              /\ wsIn[wsSends[j].req].text \in GoodFrames
              /\ wsSends[j].payload.f["avgColor"] = RequestColor(wsSends[j].req)
    /\ \A i \in 1 .. Len(wsIn) :
          (wsIn[i].text \in GoodFrames /\ (i < Len(wsIn) \/ wsPc \in {"receive", "returned"})) =>
              Cardinality(SendsFor(i, "processed")) = 1

\* C14, its case: a "processed" reply delivered for a frame whose avgColor
\* is {r: 255, g: 0, b: 128}.
C14_Witness ==
    \E j \in 1 .. Len(wsSends) :
        /\ wsSends[j].type = "processed"
        /\ wsSends[j].delivered
        /\ RequestColor(wsSends[j].req) = ColorJson(255, 0, 128)
        /\ wsSends[j].payload.f["avgColor"].f["r"] = JNum(255)
        /\ wsSends[j].payload.f["avgColor"].f["b"] = JNum(128)

\* The control state of a session: its bound track and its transform tracks.
Control(s) == <<vtt[s], tracks[s]>>

C16_ActiveSessionRegistered ==
    \A s \in Sessions : (Live(s) \/ (Negotiating(s) /\ closer[s] = "none")) => s \in pcs

\* C17: in every state the colour of every transform track is three
\* integers in 0 .. 255.
C17_ColorChannelsInRange ==
    \A s \in Sessions : \A k \in 1 .. Len(tracks[s]) :
        \A c \in 1 .. 3 : tracks[s][k].color[c] \in 0 .. 255

\* The last call of send_text, if any, was the "error" message and failed.
ErrorSendFailed ==
    /\ Len(wsSends) > 0
    /\ wsSends[Len(wsSends)].type = "error"
    /\ ~wsSends[Len(wsSends)].delivered

\* C18: when the send of the "error" message fails the endpoint returns
\* without raising, and an endpoint that has returned neither sends nor
\* receives again.
C18_FailedErrorSendSwallowed ==
    [][/\ ErrorSendFailed' => wsPc' = "returned"
       /\ wsPc = "returned" =>
            /\ wsPc' = "returned"
            /\ wsSends' = wsSends
            /\ wsIn' = wsIn]_vars

\* C18, its case: a text whose handling raised, the peer gone before the
\* "error" message could be sent, the endpoint returned.
C18_Witness ==
    /\ ErrorSendFailed
    /\ Len(wsIn) > 0
    /\ wsSends[Len(wsSends)].req = Len(wsIn)
    /\ wsSends[Len(wsSends)].payload = JStr("JSONDecodeError")
    /\ wsPc = "returned"

\* C19: a control message delivered to a session with no transform track
\* changes nothing and is not kept; a transform track is created with colour
\* (0, 0, 0); and a track that no colour update has reached since it was
\* created draws its frames in (0, 0, 0).
C19_EarlyUpdateDiscarded ==
    [][\A s \in Sessions :
         /\ (ctlCount' # ctlCount /\ lastCtl'.to = s /\ vtt[s] = 0) =>
                (tracks' = tracks /\ vtt' = vtt)
         /\ Len(tracks'[s]) > Len(tracks[s]) =>
                tracks'[s][Len(tracks'[s])].color = Black
         /\ \A k \in 1 .. MaxTracks :
                (Pulls(s, k) /\ tracks[s][k].last.t = "null") =>
                    /\ tracks'[s][k].used = Black
                    /\ Centre(tracks'[s][k].out.img) = Black]_vars

\* C19, its case: a colour update delivered before the track arrived, then
\* the track, then a frame, drawn in (0, 0, 0).
C19_Witness ==
    /\ lastCtl.class = "color"
    /\ lastCtl.pulled
    /\ ctlCount = 1
    /\ \E s \in Sessions :
        /\ lastCtl.to = s
        /\ vtt[s] = 1
        /\ tracks[s][1].last.t = "null"
        /\ tracks[s][1].color = Black
        /\ tracks[s][1].pulled = 1
        /\ tracks[s][1].used = Black

\* C20: transform tracks are never taken off a session; a track that
\* arrives gets a new transform track of colour (0, 0, 0), which becomes and
\* stays the bound one until the next arrival; the earlier tracks are left
\* as they are, are never updated again and draw their later frames in the
\* colour they had.
C20_SecondTrackRebinds ==
    [][\A s \in Sessions :
         /\ Len(tracks'[s]) >= Len(tracks[s])
         /\ vtt'[s] = Len(tracks'[s])
         /\ Len(tracks'[s]) > Len(tracks[s]) =>
                /\ tracks'[s][Len(tracks'[s])].color = Black
                /\ \A k \in 1 .. Len(tracks[s]) : tracks'[s][k] = tracks[s][k]
         /\ \A k \in 1 .. Len(tracks[s]) :
                k # vtt[s] =>
                    /\ tracks'[s][k].color = tracks[s][k].color
                    /\ Pulls(s, k) => tracks'[s][k].used = tracks[s][k].color]_vars

\* C20, its case: a session with two transform tracks, the first holding the
\* colour of an update, the second one bound and holding that of a later
\* update, and a frame of the first drawn in the first one's colour.
C20_Witness ==
    \E s \in Sessions :
        /\ Len(tracks[s]) = 2
        /\ vtt[s] = 2
        /\ tracks[s][1].color = <<0, 0, 255>>
        /\ tracks[s][2].color = <<0, 255, 0>>
        /\ tracks[s][1].pulled = 1
        /\ tracks[s][1].used = <<0, 0, 255>>

====
